---- MODULE Spec2Model ----
(***************************************************************************)
(* IntMap<V> of src/src/lib.rs: a map from u64 keys to values, stored as a *)
(* vector of chains (cache) whose length is a power of two, indexed by a   *)
(* multiplicative hash masked with mod_mask.                               *)
(*                                                                         *)
(* A map value is a record [cache, size, mod_mask, count]; every method of *)
(* IntMap is an operator from map records to map records (and a returned   *)
(* value), and each method a caller drives the map with is an action on    *)
(* the variables.  Rust vectors are 0-based, TLA+ sequences 1-based:       *)
(* cache[ix] of the source is cache[ix + 1] here.  The draining iterator   *)
(* (iter.rs) is modelled from its description: each pair produced leaves   *)
(* the map and decrements count, and dropping the iterator removes the     *)
(* pairs not yet produced.                                                 *)
(***************************************************************************)
EXTENDS Integers, Sequences, FiniteSets, TLC

\* cache, size, mod_mask, count: the fields of the map the caller works on.
\* last: the call that led to the current state.  draining: a Drain borrows
\* the map.  other: a second map, the right operand of ==.  trace: the keys
\* counted through entry(), in their order.
VARIABLES cache, size, mod_mask, count, last, draining, other, trace

vars == <<cache, size, mod_mask, count, last, draining, other, trace>>

\* ------------------------------------------------------------- bounds
MaxKey == 3
MaxVal == 2
MaxInitCap == 20
MaxLoadKey == 11
MaxEqKey == 1
MaxAdditional == 4

Keys == 0..MaxKey
Vals == 1..MaxVal
InitCaps == 0..MaxInitCap
LoadKeys == 0..MaxLoadKey
EqKeys == 0..MaxEqKey
Additionals == 0..MaxAdditional

\* Option<V>: None is the empty tuple, Some(v) the one-element tuple.
None == <<>>
Some(v) == <<v>>

\* ------------------------------------------------------------- hashing
\* 16-bit limbs, least significant first, of the u64 values of hash_u64.
LimbBase == 65536

\* let a = 11400714819323198549u64, as limbs:
\* 40503 * 2^48 + 31161 * 2^32 + 32586 * 2^16 + 31829.
HashMultiplier == <<31829, 32586, 31161, 40503>>

\* a.wrapping_mul(seed) for seed < 2^15: schoolbook multiplication limb by
\* limb, the carry out of the fourth limb dropped (arithmetic modulo 2^64).
RECURSIVE MulLimbs(_, _, _, _)
MulLimbs(a, seed, i, carry) ==
    IF i > Len(a) THEN <<>>
    ELSE LET p == a[i] * seed + carry
         IN  <<p % LimbBase>> \o MulLimbs(a, seed, i + 1, p \div LimbBase)

wrapping_mul(a, seed) == MulLimbs(a, seed, 1, 0)

hash_u64(seed) == wrapping_mul(HashMultiplier, seed)

\* x & y on naturals, bit by bit.
RECURSIVE BitAnd(_, _)
BitAnd(x, y) ==
    IF x = 0 \/ y = 0 THEN 0
    ELSE (x % 2) * (y % 2) + 2 * BitAnd(x \div 2, y \div 2)

\* (hash & self.mod_mask) as usize.  Every mask of the model is below 2^16,
\* so the bits of the mask above the first limb are zero and only the first
\* limb of the hash survives the conjunction.
calc_index(m, key) == BitAnd(hash_u64(key)[1], m.mod_mask)

\* ------------------------------------------------------------- growth
RECURSIVE Pow2(_)
Pow2(n) == IF n = 0 THEN 1 ELSE 2 * Pow2(n - 1)

\* 2u64.pow(self.size) as usize
lim(m) == Pow2(m.size)

\* vec.into_iter().flatten(): the pairs of all chains, chain after chain.
RECURSIVE FlattenFrom(_, _)
FlattenFrom(c, i) ==
    IF i > Len(c) THEN <<>> ELSE c[i] \o FlattenFrom(c, i + 1)

Flatten(c) == FlattenFrom(c, 1)

\* for k in vec.into_iter().flatten() { self.cache[calc_index(k.0)].push(k) }
RECURSIVE Rehash(_, _, _)
Rehash(m, pairs, i) ==
    IF i > Len(pairs) THEN m
    ELSE LET ix == calc_index(m, pairs[i][1])
         IN  Rehash([m EXCEPT !.cache[ix + 1] = Append(@, pairs[i])],
                    pairs, i + 1)

\* Mutant of increase_cache: the pairs are placed with the mask of before the
\* resize, and the mask is updated afterwards.
increase_cache_stale_mask(m) ==
    LET sz      == m.size + 1
        new_lim == Pow2(sz)
        fresh   == [cache    |-> [i \in 1..new_lim |-> <<>>],
                    size     |-> sz,
                    mod_mask |-> m.mod_mask,
                    count    |-> m.count]
    IN  [Rehash(fresh, Flatten(m.cache), 1) EXCEPT !.mod_mask = new_lim - 1]

\* Mutant of increase_cache: the old chains are not moved into vec before the
\* new ones are allocated, so no pair is re-inserted.
increase_cache_forgets_pairs(m) ==
    LET sz      == m.size + 1
        new_lim == Pow2(sz)
    IN  [cache    |-> [i \in 1..new_lim |-> <<>>],
         size     |-> sz,
         mod_mask |-> new_lim - 1,
         count    |-> m.count]

\* Mutant of increase_cache: mod_mask is new_lim, not new_lim - 1.
increase_cache_mask_is_lim(m) ==
    LET sz      == m.size + 1
        new_lim == Pow2(sz)
        fresh   == [cache    |-> [i \in 1..new_lim |-> <<>>],
                    size     |-> sz,
                    mod_mask |-> new_lim,
                    count    |-> m.count]
    IN  [fresh EXCEPT !.cache =
            [i \in 1..new_lim |->
                SelectSeq(Flatten(m.cache),
                          LAMBDA kv : BitAnd(hash_u64(kv[1])[1], new_lim) = i - 1)]]

increase_cache(m) ==
    LET sz      == m.size + 1
        new_lim == Pow2(sz)
        vec     == m.cache
        fresh   == [cache    |-> [i \in 1..new_lim |-> <<>>],
                    size     |-> sz,
                    mod_mask |-> new_lim - 1,
                    count    |-> m.count]
    IN  Rehash(fresh, Flatten(vec), 1)

\* Mutant of GrowTo: the loop runs while lim() <= capacity.
RECURSIVE GrowTo_inclusive(_, _)
GrowTo_inclusive(m, capacity) ==
    IF lim(m) <= capacity
    THEN GrowTo_inclusive(increase_cache(m), capacity)
    ELSE m

\* while self.lim() < capacity { self.increase_cache(); }
RECURSIVE GrowTo(_, _)
GrowTo(m, capacity) ==
    IF lim(m) < capacity THEN GrowTo(increase_cache(m), capacity) ELSE m

\* Mutant of ensure_load_rate: the division is done before the multiplication.
RECURSIVE ensure_load_rate_divides_first(_)
ensure_load_rate_divides_first(m) ==
    IF (m.count \div Len(m.cache)) * 100 > 70
    THEN ensure_load_rate_divides_first(increase_cache(m))
    ELSE m

\* while ((self.count * 100) / self.cache.len()) > 70 { self.increase_cache(); }
RECURSIVE ensure_load_rate(_)
ensure_load_rate(m) ==
    IF (m.count * 100) \div Len(m.cache) > 70
    THEN ensure_load_rate(increase_cache(m))
    ELSE m

\* usize::next_power_of_two: the smallest power of two >= n (1 for n = 0).
RECURSIVE NextPow2From(_, _)
NextPow2From(p, n) == IF p >= n THEN p ELSE NextPow2From(2 * p, n)

next_power_of_two(n) == NextPow2From(1, n)

\* ------------------------------------------------------------- methods
with_capacity(capacity) ==
    LET map == [cache |-> <<>>, size |-> 0, count |-> 0, mod_mask |-> 0]
    IN  GrowTo(increase_cache(map), capacity)

new == with_capacity(4)

\* Mutant of reserve: the wanted capacity ignores the pairs already stored.
reserve_ignores_count(m, additional) ==
    GrowTo(m, next_power_of_two(additional))

reserve(m, additional) ==
    GrowTo(m, next_power_of_two(m.count + additional))

\* Mutant of HasKey: only the first pair of the chain is compared.
HasKey_first_only(vals, key) == Len(vals) > 0 /\ vals[1][1] = key

\* vals.iter().any(|kv| kv.0 == key)
HasKey(vals, key) == \E i \in 1..Len(vals) : vals[i][1] = key

\* Mutant of insert: a present key has its value overwritten.
insert_overwrites(m, key, value) ==
    LET ix   == calc_index(m, key)
        vals == m.cache[ix + 1]
    IN  IF HasKey(vals, key)
        THEN [map |-> [m EXCEPT !.cache[ix + 1] =
                          [j \in 1..Len(vals) |->
                              IF vals[j][1] = key THEN <<key, value>> ELSE vals[j]]],
              ret |-> FALSE]
        ELSE LET pushed == [m EXCEPT !.count = @ + 1,
                                     !.cache[ix + 1] = Append(@, <<key, value>>)]
             IN  [map |-> IF BitAnd(pushed.count, 4) = 4
                          THEN ensure_load_rate(pushed)
                          ELSE pushed,
                  ret |-> TRUE]

\* Mutant of insert: the load is checked after every successful insertion.
insert_checks_always(m, key, value) ==
    LET ix   == calc_index(m, key)
        vals == m.cache[ix + 1]
    IN  IF HasKey(vals, key)
        THEN [map |-> m, ret |-> FALSE]
        ELSE LET pushed == [m EXCEPT !.count = @ + 1,
                                     !.cache[ix + 1] = Append(@, <<key, value>>)]
             IN  [map |-> ensure_load_rate(pushed), ret |-> TRUE]

\* The map and the returned bool of insert.
insert(m, key, value) ==
    LET ix   == calc_index(m, key)
        vals == m.cache[ix + 1]
    IN  IF HasKey(vals, key)
        THEN [map |-> m, ret |-> FALSE]
        ELSE LET pushed == [m EXCEPT !.count = @ + 1,
                                     !.cache[ix + 1] = Append(@, <<key, value>>)]
             IN  [map |-> IF BitAnd(pushed.count, 4) = 4
                          THEN ensure_load_rate(pushed)
                          ELSE pushed,
                  ret |-> TRUE]

\* Mutant of FindFrom: the search stops before the last pair of the chain.
FindFrom_skips_last(vals, key, i) ==
    IF \E j \in i..(Len(vals) - 1) : vals[j][1] = key
    THEN Some(vals[CHOOSE j \in i..(Len(vals) - 1) : vals[j][1] = key][2])
    ELSE None

\* vals.iter().find_map(|kv| (kv.0 == key).then(|| &kv.1)): the first match.
RECURSIVE FindFrom(_, _, _)
FindFrom(vals, key, i) ==
    IF i > Len(vals) THEN None
    ELSE IF vals[i][1] = key THEN Some(vals[i][2])
    ELSE FindFrom(vals, key, i + 1)

get(m, key) ==
    LET ix   == calc_index(m, key)
        vals == m.cache[ix + 1]
    IN  IF Len(vals) > 0 THEN FindFrom(vals, key, 1) ELSE None

contains_key(m, key) == get(m, key) # None

\* Mutant of swap_remove: the last element is dropped whatever i is.
swap_remove_pops_last(vals, i) == SubSeq(vals, 1, Len(vals) - 1)

\* Vec::swap_remove(i) for the 1-based i: the last element takes the place of
\* the removed one.
swap_remove(vals, i) ==
    LET n == Len(vals)
    IN  IF i = n THEN SubSeq(vals, 1, n - 1)
        ELSE [j \in 1..(n - 1) |-> IF j = i THEN vals[n] ELSE vals[j]]

\* The index of the first pair of vals with the key, 0 when there is none:
\* the for loop of remove.
RECURSIVE PositionFrom(_, _, _)
PositionFrom(vals, key, i) ==
    IF i > Len(vals) THEN 0
    ELSE IF vals[i][1] = key THEN i
    ELSE PositionFrom(vals, key, i + 1)

\* Mutant of remove: count is not decremented.
remove_keeps_count(m, key) ==
    LET ix   == calc_index(m, key)
        vals == m.cache[ix + 1]
        i    == PositionFrom(vals, key, 1)
    IN  IF Len(vals) > 0 /\ i > 0
        THEN [map |-> [m EXCEPT !.cache[ix + 1] = swap_remove(vals, i)],
              ret |-> Some(vals[i][2])]
        ELSE [map |-> m, ret |-> None]

\* The map and the returned Option<V> of remove.
remove(m, key) ==
    LET ix   == calc_index(m, key)
        vals == m.cache[ix + 1]
        i    == PositionFrom(vals, key, 1)
    IN  IF Len(vals) > 0 /\ i > 0
        THEN [map |-> [m EXCEPT !.count = @ - 1,
                                !.cache[ix + 1] = swap_remove(vals, i)],
              ret |-> Some(vals[i][2])]
        ELSE [map |-> m, ret |-> None]

\* Mutant of clear: the map is replaced by a freshly built one of 4 chains.
clear_rebuilds(m) ==
    [cache |-> <<<<>>, <<>>, <<>>, <<>>>>, size |-> 2, mod_mask |-> 3, count |-> 0]

\* Mutant of clear: count is not reset.
clear_keeps_count(m) ==
    [m EXCEPT !.cache = [i \in 1..Len(m.cache) |-> <<>>]]

clear(m) ==
    [m EXCEPT !.cache = [i \in 1..Len(m.cache) |-> <<>>], !.count = 0]

\* The closures retain is called with.
Preds == {"key_even", "value_odd", "all", "nothing"}

ApplyPred(f, k, v) ==
    CASE f = "key_even"  -> k % 2 = 0
      [] f = "value_odd" -> v % 2 = 1
      [] f = "all"       -> TRUE
      [] f = "nothing"   -> FALSE

\* Vec::retain: the pairs the closure keeps, in their order.
RECURSIVE VecRetain(_, _, _)
VecRetain(vals, f, i) ==
    IF i > Len(vals) THEN <<>>
    ELSE (IF ApplyPred(f, vals[i][1], vals[i][2]) THEN <<vals[i]>> ELSE <<>>)
         \o VecRetain(vals, f, i + 1)

\* Mutant of RemovedFrom: removed counts the pairs the closure keeps.
RECURSIVE RemovedFrom_counts_kept(_, _, _)
RemovedFrom_counts_kept(c, f, i) ==
    IF i > Len(c) THEN 0
    ELSE Len(VecRetain(c[i], f, 1)) + RemovedFrom_counts_kept(c, f, i + 1)

\* removed: the number of pairs of all chains the closure rejects.
RECURSIVE RemovedFrom(_, _, _)
RemovedFrom(c, f, i) ==
    IF i > Len(c) THEN 0
    ELSE (Len(c[i]) - Len(VecRetain(c[i], f, 1))) + RemovedFrom(c, f, i + 1)

retain(m, f) ==
    LET removed == RemovedFrom(m.cache, f, 1)
    IN  [m EXCEPT !.cache = [i \in 1..Len(m.cache) |-> VecRetain(m.cache[i], f, 1)],
                  !.count = @ - removed]

len(m) == m.count

is_empty(m) == m.count = 0

capacity(m) == Len(m.cache)

\* self.cache.iter().flatten().count() == self.count
assert_count(m) == m.count = Len(Flatten(m.cache))

\* get_mut: the place (chain index, position in the chain) of the value the
\* returned reference points to, None when the key is absent.
get_mut(m, key) ==
    LET ix   == calc_index(m, key)
        vals == m.cache[ix + 1]
        i    == PositionFrom(vals, key, 1)
    IN  IF Len(vals) > 0 /\ i > 0 THEN Some([ix |-> ix, pos |-> i]) ELSE None

\* Reading and writing through a reference to the value at a place.
read_at(m, at) == m.cache[at.ix + 1][at.pos][2]

write_at(m, at, v) == [m EXCEPT !.cache[at.ix + 1][at.pos][2] = v]

\* Mutant of entry: the lookup never finds the key.
entry_always_vacant(m, key) ==
    [kind |-> "Vacant", key |-> key, ix |-> calc_index(m, key), pos |-> 0]

\* entry(key): one lookup, giving Occupied with the place of the pair or
\* Vacant with the key and its chain.
entry(m, key) ==
    LET ix   == calc_index(m, key)
        vals == m.cache[ix + 1]
        i    == PositionFrom(vals, key, 1)
    IN  IF i > 0
        THEN [kind |-> "Occupied", key |-> key, ix |-> ix, pos |-> i]
        ELSE [kind |-> "Vacant", key |-> key, ix |-> ix, pos |-> 0]

\* Mutant of vacant_insert: count is not incremented.
vacant_insert_keeps_count(m, e, value) ==
    LET pushed == [m EXCEPT !.cache[e.ix + 1] = Append(@, <<e.key, value>>)]
    IN  [map |-> pushed,
         at  |-> [ix |-> e.ix, pos |-> Len(pushed.cache[e.ix + 1])]]

\* VacantEntry::insert(value): the pair is inserted as by insert, without a
\* second scan of the chain for the key; the result is the map and the place
\* of the new value.
vacant_insert(m, e, value) ==
    LET pushed == [m EXCEPT !.count = @ + 1,
                            !.cache[e.ix + 1] = Append(@, <<e.key, value>>)]
        grown  == IF BitAnd(pushed.count, 4) = 4
                  THEN ensure_load_rate(pushed)
                  ELSE pushed
        ix     == calc_index(grown, e.key)
    IN  [map |-> grown,
         at  |-> [ix |-> ix, pos |-> PositionFrom(grown.cache[ix + 1], e.key, 1)]]

\* let counter = match map.entry(key) {
\*     Entry::Occupied(entry) => entry.into_mut(),
\*     Entry::Vacant(entry) => entry.insert(0) };
\* *counter += 1;
count_via_entry(m, key) ==
    LET e == entry(m, key)
        r == IF e.kind = "Occupied"
             THEN [map |-> m, at |-> [ix |-> e.ix, pos |-> e.pos]]
             ELSE vacant_insert(m, e, 0)
    IN  write_at(r.map, r.at, read_at(r.map, r.at) + 1)

\* The same counting without entry: contains_key, then insert of the default
\* when the key is absent, then get_mut and the increment.
count_via_branch(m, key) ==
    LET m1 == IF contains_key(m, key) THEN m ELSE insert(m, key, 0).map
        at == get_mut(m1, key)[1]
    IN  write_at(m1, at, read_at(m1, at) + 1)

\* for number in [10, 30, 10, 40, 50, 50, 60, 50]
Scenario == <<10, 30, 10, 40, 50, 50, 60, 50>>

ScenarioKeys == {Scenario[i] : i \in 1..Len(Scenario)}

\* self.iter(): the pairs of all chains, in bucket order and then in the order
\* of the chain.
iter(m) == Flatten(m.cache)

\* Mutant of eq: the two maps must also hold the same number of pairs.
eq_compares_len(a, b) ==
    /\ a.count = b.count
    /\ \A i \in 1..Len(iter(a)) : get(b, iter(a)[i][1]) = Some(iter(a)[i][2])

\* PartialEq: self.iter().all(|(k, a)| other.get(*k) == Some(a))
eq(a, b) ==
    \A i \in 1..Len(iter(a)) : get(b, iter(a)[i][1]) = Some(iter(a)[i][2])

\* Drain: the pair at position j of chain i is produced: it leaves its chain
\* and count is decremented.
drain_take(m, i, j) ==
    [m EXCEPT !.cache[i] = SubSeq(@, 1, j - 1) \o SubSeq(@, j + 1, Len(@)),
              !.count = @ - 1]

\* Mutant of drain_rest: only the first chain that still holds pairs is
\* emptied, and count is left as it is.
drain_rest_one_chain(m) ==
    IF \A i \in 1..Len(m.cache) : m.cache[i] = <<>>
    THEN m
    ELSE LET first == CHOOSE i \in 1..Len(m.cache) :
                        /\ m.cache[i] # <<>>
                        /\ \A j \in 1..(i - 1) : m.cache[j] = <<>>
         IN  [m EXCEPT !.cache[first] = <<>>]

\* Drain dropped: every pair not yet produced is removed as if produced.
drain_rest(m) ==
    [m EXCEPT !.cache = [i \in 1..Len(m.cache) |-> <<>>],
              !.count = @ - Len(Flatten(m.cache))]

\* ------------------------------------------------------------- state
Self == [cache |-> cache, size |-> size, mod_mask |-> mod_mask, count |-> count]

Store(m) ==
    /\ cache' = m.cache
    /\ size' = m.size
    /\ mod_mask' = m.mod_mask
    /\ count' = m.count

\* The call that led to the current state: the method, its arguments (key,
\* val, the closure f), the value it returned and capacity() before it.
Call(op, key, val, f, ret, cap) ==
    [op |-> op, key |-> key, val |-> val, f |-> f, ret |-> ret, cap |-> cap]

Init ==
    \E c \in InitCaps :
        LET m == with_capacity(c)
        IN  /\ cache = m.cache
            /\ size = m.size
            /\ mod_mask = m.mod_mask
            /\ count = m.count
            /\ last = Call("with_capacity", c, 0, "", None, 0)
            /\ draining = FALSE
            /\ other = new
            /\ trace = <<>>

Insert ==
    /\ ~draining
    /\ \E k \in Keys, v \in Vals :
        LET r == insert(Self, k, v)
        IN  /\ Store(r.map)
            /\ last' = Call("insert", k, v, "", r.ret, capacity(Self))
    /\ UNCHANGED <<draining, other, trace>>

Get ==
    /\ ~draining
    /\ \E k \in Keys :
        last' = Call("get", k, 0, "", get(Self, k), capacity(Self))
    /\ UNCHANGED <<cache, size, mod_mask, count, draining, other, trace>>

Remove ==
    /\ ~draining
    /\ \E k \in Keys :
        LET r == remove(Self, k)
        IN  /\ Store(r.map)
            /\ last' = Call("remove", k, 0, "", r.ret, capacity(Self))
    /\ UNCHANGED <<draining, other, trace>>

Clear ==
    /\ ~draining
    /\ Store(clear(Self))
    /\ last' = Call("clear", 0, 0, "", None, capacity(Self))
    /\ UNCHANGED <<draining, other, trace>>

Retain ==
    /\ ~draining
    /\ \E f \in Preds :
        /\ Store(retain(Self, f))
        /\ last' = Call("retain", 0, 0, f, None, capacity(Self))
    /\ UNCHANGED <<draining, other, trace>>

Reserve ==
    /\ ~draining
    /\ \E additional \in Additionals :
        /\ Store(reserve(Self, additional))
        /\ last' = Call("reserve", additional, 0, "", None, capacity(Self))
    /\ UNCHANGED <<draining, other, trace>>

\* drain(): the map stays mutably borrowed by the iterator until it is dropped,
\* so no other method runs while draining.
Drain ==
    /\ ~draining
    /\ draining' = TRUE
    /\ last' = Call("drain", 0, 0, "", None, capacity(Self))
    /\ UNCHANGED <<cache, size, mod_mask, count, other, trace>>

\* Drain::next(): one stored pair is produced and removed, or None when no
\* pair is left.
DrainNext ==
    /\ draining
    /\ \/ \E i \in 1..Len(cache) : \E j \in 1..Len(cache[i]) :
            /\ Store(drain_take(Self, i, j))
            /\ last' = Call("drain_next", cache[i][j][1], cache[i][j][2], "",
                            Some(cache[i][j]), capacity(Self))
       \/ /\ count = 0
          /\ last' = Call("drain_next", 0, 0, "", None, capacity(Self))
          /\ UNCHANGED <<cache, size, mod_mask, count>>
    /\ UNCHANGED <<draining, other, trace>>

\* The iterator is dropped: the pairs it did not produce are removed too (key
\* records how many there were).
DrainDrop ==
    /\ draining
    /\ Store(drain_rest(Self))
    /\ last' = Call("drain_drop", Len(Flatten(cache)), 0, "", None, capacity(Self))
    /\ draining' = FALSE
    /\ UNCHANGED <<other, trace>>

Next ==
    \/ Insert
    \/ Get
    \/ Remove
    \/ Clear
    \/ Retain
    \/ Reserve
    \/ Drain
    \/ DrainNext
    \/ DrainDrop

Spec == Init /\ [][Next]_vars

\* ------------------------------------------------------------- two maps
\* Two maps built with new(), each changed by insert and remove, the right one
\* also by reserve, and compared with == in both directions.
InitEq ==
    /\ cache = new.cache
    /\ size = new.size
    /\ mod_mask = new.mod_mask
    /\ count = new.count
    /\ other = new
    /\ last = Call("new", 0, 0, "", None, 0)
    /\ draining = FALSE
    /\ trace = <<>>

EqInsertLeft ==
    /\ \E k \in EqKeys, v \in Vals : Store(insert(Self, k, v).map)
    /\ last' = Call("insert", 0, 0, "", None, 0)
    /\ UNCHANGED <<draining, other, trace>>

EqInsertRight ==
    /\ \E k \in EqKeys, v \in Vals : other' = insert(other, k, v).map
    /\ last' = Call("insert", 0, 0, "", None, 0)
    /\ UNCHANGED <<cache, size, mod_mask, count, draining, trace>>

EqRemoveLeft ==
    /\ \E k \in EqKeys : Store(remove(Self, k).map)
    /\ last' = Call("remove", 0, 0, "", None, 0)
    /\ UNCHANGED <<draining, other, trace>>

EqRemoveRight ==
    /\ \E k \in EqKeys : other' = remove(other, k).map
    /\ last' = Call("remove", 0, 0, "", None, 0)
    /\ UNCHANGED <<cache, size, mod_mask, count, draining, trace>>

EqReserveRight ==
    /\ \E additional \in Additionals : other' = reserve(other, additional)
    /\ last' = Call("reserve", 0, 0, "", None, 0)
    /\ UNCHANGED <<cache, size, mod_mask, count, draining, trace>>

\* self == other and other == self, both results recorded.
EqCompare ==
    /\ last' = Call("eq", 0, 0, "", <<eq(Self, other), eq(other, Self)>>, 0)
    /\ UNCHANGED <<cache, size, mod_mask, count, draining, other, trace>>

NextEq ==
    \/ EqInsertLeft
    \/ EqInsertRight
    \/ EqRemoveLeft
    \/ EqRemoveRight
    \/ EqReserveRight
    \/ EqCompare

SpecEq == InitEq /\ [][NextEq]_vars

\* ------------------------------------------------------------- load
\* A map built with new() and driven by insert, remove, clear, retain and
\* reserve over the keys 0..MaxLoadKey, all with the value 1; only the method
\* called is recorded.
InitLoad ==
    /\ cache = new.cache
    /\ size = new.size
    /\ mod_mask = new.mod_mask
    /\ count = new.count
    /\ last = Call("new", 0, 0, "", None, 0)
    /\ draining = FALSE
    /\ other = new
    /\ trace = <<>>

LoadInsert ==
    /\ \E k \in LoadKeys : Store(insert(Self, k, 1).map)
    /\ last' = Call("insert", 0, 0, "", None, 0)
    /\ UNCHANGED <<draining, other, trace>>

LoadRemove ==
    /\ \E k \in LoadKeys : Store(remove(Self, k).map)
    /\ last' = Call("remove", 0, 0, "", None, 0)
    /\ UNCHANGED <<draining, other, trace>>

LoadClear ==
    /\ Store(clear(Self))
    /\ last' = Call("clear", 0, 0, "", None, 0)
    /\ UNCHANGED <<draining, other, trace>>

LoadRetain ==
    /\ \E f \in Preds : Store(retain(Self, f))
    /\ last' = Call("retain", 0, 0, "", None, 0)
    /\ UNCHANGED <<draining, other, trace>>

LoadReserve ==
    /\ \E additional \in Additionals : Store(reserve(Self, additional))
    /\ last' = Call("reserve", 0, 0, "", None, 0)
    /\ UNCHANGED <<draining, other, trace>>

NextLoad ==
    \/ LoadInsert
    \/ LoadRemove
    \/ LoadClear
    \/ LoadRetain
    \/ LoadReserve

SpecLoad == InitLoad /\ [][NextLoad]_vars

\* ------------------------------------------------------------- entry
\* The map of Spec, also driven by the counting pattern of entry(): a step
\* counts a key as long as its counter stays within Vals.
EntryCount ==
    /\ ~draining
    /\ \E k \in Keys :
        LET m2 == count_via_entry(Self, k)
        IN  /\ get(m2, k)[1] <= MaxVal
            /\ Store(m2)
            /\ last' = Call("entry", k, get(m2, k)[1], "",
                            entry(Self, k).kind, capacity(Self))
    /\ UNCHANGED <<draining, other, trace>>

NextCount ==
    \/ Insert
    \/ Get
    \/ Remove
    \/ Clear
    \/ Retain
    \/ Reserve
    \/ Drain
    \/ DrainNext
    \/ DrainDrop
    \/ EntryCount

SpecCount == Init /\ [][NextCount]_vars

\* The counters map of the example of entry(): starting from new(), keys of
\* the example are counted in any order, as many as the example has; trace
\* records them.
InitScenario ==
    /\ cache = new.cache
    /\ size = new.size
    /\ mod_mask = new.mod_mask
    /\ count = new.count
    /\ last = Call("new", 0, 0, "", None, 0)
    /\ draining = FALSE
    /\ other = new
    /\ trace = <<>>

ScenarioCount ==
    /\ Len(trace) < Len(Scenario)
    /\ \E k \in ScenarioKeys :
        /\ Store(count_via_entry(Self, k))
        /\ trace' = Append(trace, k)
        /\ last' = Call("entry", k, 0, "", entry(Self, k).kind, capacity(Self))
    /\ UNCHANGED <<draining, other>>

NextScenario == ScenarioCount

SpecScenario == InitScenario /\ [][NextScenario]_vars

\* ------------------------------------------------------------- properties
\* The map after the step.
SelfNext ==
    [cache |-> cache', size |-> size', mod_mask |-> mod_mask', count |-> count']

\* The (key, value) pairs stored in the chains of a map.
PairSet(m) ==
    UNION {{m.cache[i][j] : j \in 1..Len(m.cache[i])} : i \in 1..Len(m.cache)}

\* The positions (chain, index in the chain) that hold key k.
Positions(m, k) ==
    UNION {{<<i, j>> : j \in {n \in 1..Len(m.cache[i]) : m.cache[i][n][1] = k}} :
              i \in 1..Len(m.cache)}

\* C1 (count invariant): in every reachable state count equals the number of
\* pairs summed over all chains, that is assert_count() is true.
C1_CountInvariant == assert_count(Self)

\* A remove that found its key has acted on a map that still holds three pairs.
C1_Witness ==
    /\ last.op = "remove"
    /\ last.ret # None
    /\ count = 3
    /\ Len(Flatten(cache)) = 3

\* C2 (no duplicate keys): in every reachable state each key is held by at
\* most one (chain, position) of the map.
C2_NoDuplicateKeys ==
    \A k \in Keys : Cardinality(Positions(Self, k)) <= 1

\* A removal has taken one pair out of a chain of two (the last pair of the
\* chain takes the place of the removed one), and the map keeps two pairs.
C2_Witness ==
    /\ last.op = "remove"
    /\ last.ret # None
    /\ Len(cache[calc_index(Self, last.key) + 1]) = 1
    /\ cache[calc_index(Self, last.key) + 1][1][1] > last.key
    /\ count = 2

\* C3 (insert never overwrites): an insert of a key that is present returns
\* false and leaves the value of the key, len(), capacity() and every other
\* entry as they were.
C3_InsertNeverOverwrites ==
    [][\A k \in Keys :
        (last'.op = "insert" /\ last'.key = k /\ contains_key(Self, k))
        => /\ last'.ret = FALSE
           /\ get(SelfNext, k) = get(Self, k)
           /\ len(SelfNext) = len(Self)
           /\ capacity(SelfNext) = capacity(Self)
           /\ cache' = cache]_vars

\* An insert was rejected whose value differs from the stored one.
C3_Witness ==
    /\ last.op = "insert"
    /\ last.ret = FALSE
    /\ get(Self, last.key) # None
    /\ get(Self, last.key) # Some(last.val)

\* C4 (round trip): an insert of an absent key returns true, and then get
\* returns the inserted value, contains_key is true and len() is one more,
\* also when the insert resized the map.
C4_RoundTrip ==
    [][\A k \in Keys :
        (last'.op = "insert" /\ last'.key = k /\ ~contains_key(Self, k))
        => /\ last'.ret = TRUE
           /\ get(SelfNext, k) = Some(last'.val)
           /\ contains_key(SelfNext, k)
           /\ len(SelfNext) = len(Self) + 1]_vars

\* An insert succeeded and resized the map twice (capacity 2 to 8).
C4_Witness ==
    /\ last.op = "insert"
    /\ last.ret = TRUE
    /\ last.cap = 2
    /\ capacity(Self) = 8
    /\ get(Self, last.key) = Some(last.val)

\* C5 (remove then absent): a remove of a key present with value v returns v,
\* decrements len() by one and leaves the key absent.
C5_RemoveThenAbsent ==
    [][\A k \in Keys :
        (last'.op = "remove" /\ last'.key = k /\ contains_key(Self, k))
        => /\ last'.ret = get(Self, k)
           /\ len(SelfNext) = len(Self) - 1
           /\ get(SelfNext, k) = None
           /\ ~contains_key(SelfNext, k)]_vars

\* A remove returned a value out of a chain that keeps other keys.
C5_Witness ==
    /\ last.op = "remove"
    /\ last.ret # None
    /\ get(Self, last.key) = None
    /\ Len(cache[calc_index(Self, last.key) + 1]) >= 1

\* n is a power of two.
RECURSIVE IsPow2(_)
IsPow2(n) == n = 1 \/ (n > 1 /\ n % 2 = 0 /\ IsPow2(n \div 2))

\* C6 (resize preserves content): increase_cache applied to any reachable map
\* leaves the set of pairs and count unchanged and every pair retrievable by
\* get; and a step that resized the map (an insert or a reserve) keeps every
\* pair stored before it retrievable with its value, adding only the inserted
\* pair.
C6_ResizePreservesContent ==
    /\ [](/\ PairSet(increase_cache(Self)) = PairSet(Self)
          /\ increase_cache(Self).count = count
          /\ \A kv \in PairSet(Self) :
                get(increase_cache(Self), kv[1]) = Some(kv[2]))
    /\ [][capacity(SelfNext) # capacity(Self)
          => /\ last'.op \in {"insert", "reserve"}
             /\ \A kv \in PairSet(Self) : get(SelfNext, kv[1]) = Some(kv[2])
             /\ last'.op = "reserve"
                => PairSet(SelfNext) = PairSet(Self) /\ count' = count
             /\ last'.op = "insert"
                => /\ PairSet(SelfNext)
                        = PairSet(Self) \cup {<<last'.key, last'.val>>}
                   /\ count' = count + 1]_vars

\* Four inserts of distinct keys into a map of 2 chains resized it to 8 chains,
\* and the four keys are retrievable.
C6_Witness ==
    /\ last.op = "insert"
    /\ last.cap = 2
    /\ capacity(Self) = 8
    /\ count = 4
    /\ Cardinality({k \in Keys : get(Self, k) # None}) = 4

\* C7 (bucket placement): in every reachable state every stored pair sits in
\* the chain at index hash(key) & mod_mask for the current mod_mask.
C7_BucketPlacement ==
    \A i \in 1..Len(cache) : \A j \in 1..Len(cache[i]) :
        calc_index(Self, cache[i][j][1]) = i - 1

\* A reserve resized a map holding three pairs, one of them beyond chain 1.
C7_Witness ==
    /\ last.op = "reserve"
    /\ last.cap < capacity(Self)
    /\ count = 3
    /\ \E i \in 3..Len(cache) : Len(cache[i]) > 0

\* C8 (shape invariant): in every reachable state the number of chains is
\* 2^size, a power of two, mod_mask is that number minus one, and the index
\* of every key is below the number of chains.
C8_ShapeInvariant ==
    /\ Len(cache) = 2 ^ size
    /\ IsPow2(Len(cache))
    /\ mod_mask = Len(cache) - 1
    /\ \A k \in Keys : calc_index(Self, k) < Len(cache)

\* A reserve on a non-empty map of 2 chains has grown it to 8 chains.
C8_Witness ==
    /\ last.op = "reserve"
    /\ last.cap = 2
    /\ capacity(Self) = 8
    /\ count >= 2

\* C9 (the bucket array never shrinks): no step decreases capacity(); remove,
\* clear, retain, get and a rejected insert leave it unchanged; only a
\* successful insert or a reserve increases it.
C9_NeverShrinks ==
    [][/\ capacity(SelfNext) >= capacity(Self)
       /\ (\/ last'.op \in {"remove", "clear", "retain", "get"}
           \/ (last'.op = "insert" /\ last'.ret = FALSE))
          => capacity(SelfNext) = capacity(Self)
       /\ capacity(SelfNext) > capacity(Self)
          => \/ last'.op = "reserve"
             \/ (last'.op = "insert" /\ last'.ret = TRUE)]_vars

\* A clear has emptied a map of 16 chains, which still has 16 chains.
C9_Witness ==
    /\ last.op = "clear"
    /\ last.cap = 16
    /\ capacity(Self) = 16
    /\ count = 0

\* C10 (with_capacity): with_capacity(c) is an empty map whose capacity() is
\* the smallest power of two that is >= c and >= 2; with_capacity(20) has
\* capacity 32 and new() capacity 4.
C10_WithCapacity ==
    last.op = "with_capacity"
    => LET c   == last.key
           cap == capacity(Self)
       IN  /\ len(Self) = 0
           /\ PairSet(Self) = {}
           /\ IsPow2(cap)
           /\ cap >= c
           /\ cap >= 2
           /\ \A p \in 2..(cap - 1) : IsPow2(p) => p < c
           /\ c = 20 => cap = 32
           /\ c = 4 => (cap = 4 /\ Self = new)

\* with_capacity(20) has built a map of 32 chains.
C10_Witness ==
    /\ last.op = "with_capacity"
    /\ last.key = 20
    /\ capacity(Self) = 32

\* The smallest power of two that is >= n.
SmallestPow2AtLeast(n) ==
    CHOOSE p \in 1..(2 * n + 1) :
        /\ IsPow2(p)
        /\ p >= n
        /\ \A q \in 1..(p - 1) : IsPow2(q) => q < n

Max(a, b) == IF a >= b THEN a ELSE b

\* C11 (reserve): reserve(additional) leaves len() and every pair unchanged and
\* ends with capacity() the larger of the previous capacity and the smallest
\* power of two >= count + additional, so capacity() >= count + additional
\* and the bucket array does not shrink.
C11_Reserve ==
    [][last'.op = "reserve"
       => /\ len(SelfNext) = len(Self)
          /\ PairSet(SelfNext) = PairSet(Self)
          /\ \A kv \in PairSet(Self) : get(SelfNext, kv[1]) = Some(kv[2])
          /\ capacity(SelfNext)
                = Max(capacity(Self), SmallestPow2AtLeast(count + last'.key))
          /\ capacity(SelfNext) >= count + last'.key
          /\ capacity(SelfNext) >= capacity(Self)]_vars

\* reserve(4) on a map of 4 chains holding three pairs has grown it to 8.
C11_Witness ==
    /\ last.op = "reserve"
    /\ last.key = 4
    /\ last.cap = 4
    /\ count = 3
    /\ capacity(Self) = 8

\* C12 (retain): retain(f) leaves exactly the pairs f accepts, each with its
\* value, removes every pair f rejects and decrements count by the number of
\* pairs removed.
C12_Retain ==
    [][last'.op = "retain"
       => LET kept     == {kv \in PairSet(Self) : ApplyPred(last'.f, kv[1], kv[2])}
              rejected == PairSet(Self) \ kept
          IN  /\ PairSet(SelfNext) = kept
              /\ \A kv \in kept : get(SelfNext, kv[1]) = Some(kv[2])
              /\ \A kv \in rejected : get(SelfNext, kv[1]) = None
              /\ count' = count - Cardinality(rejected)
              /\ assert_count(SelfNext)]_vars

\* retain(|k, _| k % 2 == 0) has left exactly the even keys 0 and 2.
C12_Witness ==
    /\ last.op = "retain"
    /\ last.f = "key_even"
    /\ count = 2
    /\ {kv[1] : kv \in PairSet(Self)} = {0, 2}

\* C13 (idempotent clear): clear() leaves every chain empty, len() = 0,
\* is_empty() true and every key absent, with capacity() unchanged, and a
\* second clear() yields the same map.
C13_IdempotentClear ==
    [][last'.op = "clear"
       => /\ \A i \in 1..Len(cache') : cache'[i] = <<>>
          /\ len(SelfNext) = 0
          /\ is_empty(SelfNext)
          /\ \A k \in Keys : get(SelfNext, k) = None /\ ~contains_key(SelfNext, k)
          /\ capacity(SelfNext) = capacity(Self)
          /\ clear(SelfNext) = SelfNext]_vars

\* A clear has acted on a map of 8 chains.
C13_Witness ==
    /\ last.op = "clear"
    /\ last.cap = 8
    /\ capacity(Self) = 8
    /\ is_empty(Self)

\* C14 (one-directional equality): a == b is true exactly when every pair of
\* a is found in b under the same key with an equal value; so a == b holds
\* when b holds all pairs of a and more, and then b == a does not hold.
C14_EqOneDirectional ==
    /\ eq(Self, other)
        <=> \A kv \in PairSet(Self) : get(other, kv[1]) = Some(kv[2])
    /\ eq(other, Self)
        <=> \A kv \in PairSet(other) : get(Self, kv[1]) = Some(kv[2])
    /\ (PairSet(Self) \subseteq PairSet(other) /\ PairSet(Self) # PairSet(other))
        => eq(Self, other) /\ ~eq(other, Self)
    /\ last.op = "eq" => last.ret = <<eq(Self, other), eq(other, Self)>>

\* The left map holds one pair, the right map that pair and another one in
\* a larger bucket array; left == right was true and right == left false.
C14_Witness ==
    /\ last.op = "eq"
    /\ last.ret = <<TRUE, FALSE>>
    /\ count = 1
    /\ other.count = 2
    /\ capacity(other) > capacity(Self)
    /\ PairSet(Self) \subseteq PairSet(other)

\* C18 (growth policy of insert): a successful insert changes capacity() only
\* if the count after it has bit value 4 set and (count * 100) / capacity > 70;
\* then the capacity is doubled the least number of times that brings
\* (count * 100) / capacity to 70 or less.  With that bit clear the capacity
\* stays whatever the load.
C18_GrowthPolicy ==
    [][(last'.op = "insert" /\ last'.ret = TRUE)
       => LET c    == count'
              cap0 == capacity(Self)
              cap1 == capacity(SelfNext)
              bit  == (c \div 4) % 2 = 1
              over == (c * 100) \div cap0 > 70
          IN  /\ cap1 # cap0 => (bit /\ over)
              /\ (bit /\ over)
                 => /\ cap1 > cap0
                    /\ cap1 % cap0 = 0
                    /\ IsPow2(cap1 \div cap0)
                    /\ (c * 100) \div cap1 <= 70
                    /\ (c * 100) \div (cap1 \div 2) > 70
              /\ ~bit => cap1 = cap0]_vars

\* A third pair was inserted into a map of 2 chains (load 150%), and the map
\* still has 2 chains: count 3 has bit value 4 clear.
C18_Witness ==
    /\ last.op = "insert"
    /\ last.ret = TRUE
    /\ count = 3
    /\ last.cap = 2
    /\ capacity(Self) = 2

\* C19 (frame condition of remove): remove(k) leaves every key other than k
\* present with its value, losing and duplicating nothing; when k is absent it
\* returns None and leaves count and all entries unchanged.
C19_RemoveFrame ==
    [][\A k \in Keys :
        (last'.op = "remove" /\ last'.key = k)
        => /\ \A k2 \in Keys \ {k} : get(SelfNext, k2) = get(Self, k2)
           /\ PairSet(SelfNext) = {kv \in PairSet(Self) : kv[1] # k}
           /\ \A k2 \in Keys : Cardinality(Positions(SelfNext, k2)) <= 1
           /\ assert_count(SelfNext)
           /\ ~contains_key(Self, k)
              => /\ last'.ret = None
                 /\ count' = count
                 /\ cache' = cache]_vars

\* A removal from a chain of two has left the other key of the chain, the
\* later one, in place of the removed key.
C19_Witness ==
    /\ last.op = "remove"
    /\ last.ret # None
    /\ \E i \in 1..Len(cache) :
        /\ Len(cache[i]) = 1
        /\ calc_index(Self, last.key) = i - 1
        /\ cache[i][1][1] # last.key
    /\ count = 1

\* C20 (bounded load): for a map created with new() and driven by insert,
\* remove, clear, retain and reserve, count * 100 <= 75 * capacity in every
\* reachable state.
C20_BoundedLoad == count * 100 <= 75 * capacity(Self)

\* An insert has brought the map to 11 pairs in 16 chains: the counts 8..11
\* have bit value 4 clear and were inserted without a load check.
C20_Witness ==
    /\ last.op = "insert"
    /\ count = 11
    /\ capacity(Self) = 16

\* C17 (drain always empties the map): however many pairs were taken from
\* drain(), once the iterator is dropped len() is 0, every chain is empty and
\* count is the number of stored pairs; every pair produced was in the map,
\* leaves it, and so is not produced twice.
C17_DrainEmpties ==
    [][/\ last'.op = "drain_drop"
          => /\ len(SelfNext) = 0
             /\ \A i \in 1..Len(cache') : cache'[i] = <<>>
             /\ assert_count(SelfNext)
             /\ capacity(SelfNext) = capacity(Self)
             /\ ~draining'
       /\ (last'.op = "drain_next" /\ last'.ret # None)
          => /\ last'.ret[1] \in PairSet(Self)
             /\ PairSet(SelfNext) = PairSet(Self) \ {last'.ret[1]}
             /\ count' = count - 1
             /\ assert_count(SelfNext)
       /\ (last'.op = "drain_next" /\ last'.ret = None)
          => PairSet(Self) = {} /\ count = 0
       /\ (draining /\ draining') => PairSet(SelfNext) \subseteq PairSet(Self)]_vars

\* A drain was dropped while two pairs had not been produced, and the map is
\* empty.
C17_Witness ==
    /\ last.op = "drain_drop"
    /\ last.key = 2
    /\ count = 0
    /\ PairSet(Self) = {}

\* The number of times key k occurs in the sequence t.
Occurrences(t, k) == Cardinality({i \in 1..Len(t) : t[i] = k})

\* C15 as stated (entry counting scenario): after the keys 10, 30, 10, 40, 50,
\* 50, 60, 50 were counted in this order through entry(), the map is
\* {10:1, 30:1, 40:1, 50:3, 60:1} and get(20) is absent.
C15_AsStated ==
    trace = Scenario
    => /\ PairSet(Self) = {<<10, 1>>, <<30, 1>>, <<40, 1>>, <<50, 3>>, <<60, 1>>}
       /\ get(Self, 20) = None

\* C15 amended: after the keys 10, 30, 10, 40, 50, 50, 60, 50 were counted in
\* this order through entry(), the map is {10:2, 30:1, 40:1, 50:3, 60:1}, it
\* holds 5 pairs and get(20) is absent; and after any counted sequence every
\* counted key holds the number of times it occurs in the sequence.
C15_EntryScenario ==
    /\ trace = Scenario
       => /\ PairSet(Self) = {<<10, 2>>, <<30, 1>>, <<40, 1>>, <<50, 3>>, <<60, 1>>}
          /\ get(Self, 10) = Some(2)
          /\ get(Self, 30) = Some(1)
          /\ get(Self, 40) = Some(1)
          /\ get(Self, 50) = Some(3)
          /\ get(Self, 60) = Some(1)
          /\ get(Self, 20) = None
          /\ len(Self) = 5
    /\ \A k \in ScenarioKeys :
          get(Self, k) = IF Occurrences(trace, k) = 0
                         THEN None
                         ELSE Some(Occurrences(trace, k))
    /\ assert_count(Self)

\* The eight keys of the example were counted in its order, the last one
\* through an Occupied entry.
C15_Witness ==
    /\ trace = Scenario
    /\ last.op = "entry"
    /\ last.key = 50
    /\ last.ret = "Occupied"
    /\ get(Self, 50) = Some(3)

\* C16 (entry equivalence): counting key k through entry(k) leaves the same
\* keys, values and len() as contains_key(k) followed by insert(k, 0) or
\* get_mut(k) and the same increment.
C16_EntryEquivalence ==
    [][\A k \in Keys :
        (last'.op = "entry" /\ last'.key = k)
        => LET b == count_via_branch(Self, k)
           IN  /\ PairSet(SelfNext) = PairSet(b)
               /\ len(SelfNext) = len(b)
               /\ \A k2 \in Keys : get(SelfNext, k2) = get(b, k2)
               /\ assert_count(SelfNext)
               /\ last'.ret = IF contains_key(Self, k) THEN "Occupied" ELSE "Vacant"]_vars

\* A key was counted through a Vacant entry whose insertion resized the map
\* from 4 to 8 chains.
C16_Witness ==
    /\ last.op = "entry"
    /\ last.ret = "Vacant"
    /\ last.cap = 4
    /\ capacity(Self) = 8
    /\ get(Self, last.key) = Some(1)

====
